---- MODULE Spec2Model ----
(***************************************************************************)
(* Model of the LAS query router: the keyword matcher of                   *)
(* mcp_servers/tools_server.py and the agent of                            *)
(* langchain_scripts/langchain_agent.py (check_clarification and           *)
(* process_query with their discovery-service and classifier calls).       *)
(*                                                                         *)
(* Python strings on which the code does substring tests are sequences of  *)
(* one-character strings; dicts are records whose DOMAIN is the key set;   *)
(* floats that the code obtains by dividing integers are exact fractions   *)
(* <<numerator, denominator>>.                                             *)
(***************************************************************************)
EXTENDS Integers, Sequences, FiniteSets, TLC

VARIABLES
    pc,                   \* position of the running request
    action,               \* sys.argv[1]
    query,                \* sys.argv[2], a character sequence
    llm_config,           \* parsed sys.argv[3] (PyNone when absent or invalid)
    model,                \* self.model
    available_tools,      \* self.available_tools
    available_scripts,    \* self.available_scripts
    available_las_files,  \* self.available_las_files
    las_dir,              \* the LAS files the resources service can see
    tool_scores,          \* tool_scores of the last match_tool_to_query call
    tool_match,           \* the match result in hand
    result,               \* the response record of the request
    argv,                 \* sys.argv of a run of langchain_agent.py
    call,                 \* the arguments of the call a server is handling
    cmd,                  \* the command line execute_script has spawned
    output_dirs,          \* the output directories execute_script has made
    match_result          \* match_result of _match_tool_to_query while it runs

vars == << pc, action, query, llm_config, model, available_tools,
           available_scripts, available_las_files, las_dir, tool_scores,
           tool_match, result, argv, call, cmd, output_dirs, match_result >>

\* The state of the scripts server.
execVars == << call, cmd, output_dirs >>

----------------------------------------------------------------------------
(* Bounds of the model *)

\* Longest query, counted in phrases of the vocabulary.
MaxWords == 2

----------------------------------------------------------------------------
(* Strings *)

\* The characters of every identifier, keyword and script name of the code.
Spell ==
       ("depth_plotter" :> <<"d","e","p","t","h","_","p","l","o","t","t","e","r">>)
    @@ ("gamma_analyzer" :> <<"g","a","m","m","a","_","a","n","a","l","y","z","e","r">>)
    @@ ("porosity_calculator" :> <<"p","o","r","o","s","i","t","y","_","c","a","l","c","u","l","a","t","o","r">>)
    @@ ("permeability_estimator" :> <<"p","e","r","m","e","a","b","i","l","i","t","y","_","e","s","t","i","m","a","t","o","r">>)
    @@ ("saturation_analyzer" :> <<"s","a","t","u","r","a","t","i","o","n","_","a","n","a","l","y","z","e","r">>)
    @@ ("depth" :> <<"d","e","p","t","h">>)
    @@ ("plot" :> <<"p","l","o","t">>)
    @@ ("visualization" :> <<"v","i","s","u","a","l","i","z","a","t","i","o","n">>)
    @@ ("curve" :> <<"c","u","r","v","e">>)
    @@ ("log" :> <<"l","o","g">>)
    @@ ("gamma" :> <<"g","a","m","m","a">>)
    @@ ("ray" :> <<"r","a","y">>)
    @@ ("formation" :> <<"f","o","r","m","a","t","i","o","n">>)
    @@ ("geology" :> <<"g","e","o","l","o","g","y">>)
    @@ ("analysis" :> <<"a","n","a","l","y","s","i","s">>)
    @@ ("porosity" :> <<"p","o","r","o","s","i","t","y">>)
    @@ ("neutron" :> <<"n","e","u","t","r","o","n">>)
    @@ ("density" :> <<"d","e","n","s","i","t","y">>)
    @@ ("reservoir" :> <<"r","e","s","e","r","v","o","i","r">>)
    @@ ("calculation" :> <<"c","a","l","c","u","l","a","t","i","o","n">>)
    @@ ("permeability" :> <<"p","e","r","m","e","a","b","i","l","i","t","y">>)
    @@ ("flow" :> <<"f","l","o","w">>)
    @@ ("estimation" :> <<"e","s","t","i","m","a","t","i","o","n">>)
    @@ ("saturation" :> <<"s","a","t","u","r","a","t","i","o","n">>)
    @@ ("water" :> <<"w","a","t","e","r">>)
    @@ ("hydrocarbon" :> <<"h","y","d","r","o","c","a","r","b","o","n">>)
    @@ ("oil" :> <<"o","i","l">>)
    @@ ("gas" :> <<"g","a","s">>)
    @@ ("depth_visualization" :> <<"d","e","p","t","h","_","v","i","s","u","a","l","i","z","a","t","i","o","n">>)
    @@ ("gamma_ray_analyzer" :> <<"g","a","m","m","a","_","r","a","y","_","a","n","a","l","y","z","e","r">>)
    @@ ("resistivity_analyzer" :> <<"r","e","s","i","s","t","i","v","i","t","y","_","a","n","a","l","y","z","e","r">>)
    @@ ("lithology_classifier" :> <<"l","i","t","h","o","l","o","g","y","_","c","l","a","s","s","i","f","i","e","r">>)
    @@ ("" :> <<>>)

\* The vocabulary the queries are built from.
Phrases ==
    << <<"h","e","l","l","o">>,
       <<"G","a","m","m","a"," ","A","n","a","l","y","z","e","r">>,
       <<"g","a","m","m","a","_","a","n","a","l","y","z","e","r">>,
       <<"r","a","y">>,
       <<"r","e","s","e","r","v","o","i","r">>,
       <<"a","n","a","l","y","s","i","s">>,
       <<"d","e","p","t","h"," ","p","l","o","t">>,
       <<"g","e","o","l","o","g","y">> >>

\* "show me the gamma ray formation analysis"
ScenarioQuery ==
    <<"s","h","o","w"," ","m","e"," ","t","h","e"," ","g","a","m","m","a"," ","r","a","y"," ","f","o","r","m","a","t","i","o","n"," ","a","n","a","l","y","s","i","s">>

\* "gamma ray formation geology analysis"
ConfidentQuery ==
    <<"g","a","m","m","a"," ","r","a","y"," ","f","o","r","m","a","t","i","o","n"," ","g","e","o","l","o","g","y"," ","a","n","a","l","y","s","i","s">>

UpperCase ==
    <<"A","B","C","D","E","F","G","H","I","J","K","L","M",
      "N","O","P","Q","R","S","T","U","V","W","X","Y","Z">>

LowerCase ==
    <<"a","b","c","d","e","f","g","h","i","j","k","l","m",
      "n","o","p","q","r","s","t","u","v","w","x","y","z">>

\* str.lower() on one character.
LowerChar(c) ==
    IF \E i \in 1..26 : UpperCase[i] = c
    THEN LowerCase[CHOOSE i \in 1..26 : UpperCase[i] = c]
    ELSE c

\* str.lower()
Lower(s) == [i \in 1..Len(s) |-> LowerChar(s[i])]

\* str.replace("_", " ")
ReplaceUnderscore(s) == [i \in 1..Len(s) |-> IF s[i] = "_" THEN " " ELSE s[i]]

\* Python's `needle in hay` on strings.
Contains(needle, hay) ==
    \E i \in 0..(Len(hay) - Len(needle)) :
        SubSeq(hay, i + 1, i + Len(needle)) = needle

\* Python's `x in xs` on lists.
InList(x, xs) == \E i \in 1..Len(xs) : xs[i] = x

RECURSIVE Join(_)
\* " ".join(words)
Join(words) ==
    IF Len(words) = 0 THEN << >>
    ELSE IF Len(words) = 1 THEN words[1]
    ELSE words[1] \o <<" ">> \o Join(Tail(words))

\* Every query the matcher is applied to: up to MaxWords phrases, and the
\* scenario query.
Queries ==
    { Join([i \in DOMAIN w |-> Phrases[w[i]]]) :
        w \in UNION { [1..n -> 1..Len(Phrases)] : n \in 0..MaxWords } }
    \cup { ScenarioQuery, ConfidentQuery }

----------------------------------------------------------------------------
(* Numbers *)

\* A float obtained as n / d, kept exact.
Frac(n, d) == << n, d >>

FracLt(a, b) == a[1] * b[2] < b[1] * a[2]
FracLe(a, b) == a[1] * b[2] <= b[1] * a[2]
FracEq(a, b) == a[1] * b[2] = b[1] * a[2]

\* min(x, 1.0)
MinOne(x) == IF FracLe(x, Frac(1, 1)) THEN x ELSE Frac(1, 1)

----------------------------------------------------------------------------
(* mcp_servers/tools_server.py *)

\* The keys of AVAILABLE_TOOLS in insertion order.
ToolOrder ==
    << "depth_plotter", "gamma_analyzer", "porosity_calculator",
       "permeability_estimator", "saturation_analyzer" >>

AVAILABLE_TOOLS ==
    [
      depth_plotter |->
        [ name |-> "depth_plotter",
          description |-> "Creates depth plots and visualizations from LAS file depth data",
          compatible_scripts |-> << "depth_visualization.py" >>,
          keywords |-> << "depth", "plot", "visualization", "curve", "log" >>,
          output_type |-> "visualization" ],
      gamma_analyzer |->
        [ name |-> "gamma_analyzer",
          description |-> "Analyzes gamma ray data for geological formations",
          compatible_scripts |-> << "gamma_analysis.py" >>,
          keywords |-> << "gamma", "ray", "formation", "geology", "analysis" >>,
          output_type |-> "analysis" ],
      porosity_calculator |->
        [ name |-> "porosity_calculator",
          description |-> "Calculates porosity from neutron and density logs",
          compatible_scripts |-> << "porosity_calculator.py" >>,
          keywords |-> << "porosity", "neutron", "density", "reservoir", "calculation" >>,
          output_type |-> "calculation" ],
      permeability_estimator |->
        [ name |-> "permeability_estimator",
          description |-> "Estimates permeability from porosity and other log data",
          compatible_scripts |-> << "permeability_analysis.py" >>,
          keywords |-> << "permeability", "flow", "reservoir", "estimation", "analysis" >>,
          output_type |-> "estimation" ],
      saturation_analyzer |->
        [ name |-> "saturation_analyzer",
          description |-> "Analyzes water and hydrocarbon saturation",
          compatible_scripts |-> << "saturation_analysis.py" >>,
          keywords |-> << "saturation", "water", "hydrocarbon", "oil", "gas" >>,
          output_type |-> "analysis" ] ]

\* list_available_tools(): list(AVAILABLE_TOOLS.values())
list_available_tools == [ i \in 1..Len(ToolOrder) |-> AVAILABLE_TOOLS[ToolOrder[i]] ]

\* A faulty variant: the keyword test is inverted.
KeywordHitMutant(keyword, query_lower) == ~Contains(Spell[keyword], query_lower)

\* `keyword in query_lower`
KeywordHit(keyword, query_lower) == Contains(Spell[keyword], query_lower)

\* The keywords the loop over tool_info["keywords"] appends, in order.
KeywordMatches(tool_name, query_lower) ==
    SelectSeq(AVAILABLE_TOOLS[tool_name].keywords,
              LAMBDA keyword : KeywordHit(keyword, query_lower))

\* `tool_name.replace("_", " ") in query_lower or tool_name in query_lower`
NameMentioned(tool_name, query_lower) ==
    \/ Contains(ReplaceUnderscore(Spell[tool_name]), query_lower)
    \/ Contains(Spell[tool_name], query_lower)

\* A faulty variant: the bonus is added once for each form of the name found.
NameBonusMutant(tool_name, query_lower) ==
      (IF Contains(ReplaceUnderscore(Spell[tool_name]), query_lower) THEN 2 ELSE 0)
    + (IF Contains(Spell[tool_name], query_lower) THEN 2 ELSE 0)

\* What the name test adds to the score.
NameBonus(tool_name, query_lower) ==
    IF NameMentioned(tool_name, query_lower) THEN 2 ELSE 0

\* The two word lists of the coarse intent classification.
VisualizationWords ==
    { <<"p","l","o","t">>,
      <<"c","h","a","r","t">>,
      <<"v","i","s","u","a","l","i","z","e">>,
      <<"g","r","a","p","h">>,
      <<"s","h","o","w">> }

AnalysisWords ==
    { <<"a","n","a","l","y","z","e">>,
      <<"c","a","l","c","u","l","a","t","e">>,
      <<"d","e","t","e","r","m","i","n","e">>,
      <<"f","i","n","d">> }

\* visualization, else analysis, else general.
Intent(query_lower) ==
    IF \E w \in VisualizationWords : Contains(w, query_lower) THEN "visualization"
    ELSE IF \E w \in AnalysisWords : Contains(w, query_lower) THEN "analysis"
    ELSE "general"

\* A faulty variant: one more point when the query's coarse intent equals the
\* tool's output category.
ScoreToolMutant(tool_name, query_lower) ==
    [ tool |-> tool_name,
      score |-> Len(KeywordMatches(tool_name, query_lower))
                + NameBonus(tool_name, query_lower)
                + (IF Intent(query_lower) = AVAILABLE_TOOLS[tool_name].output_type
                   THEN 1 ELSE 0),
      matched_keywords |->
          KeywordMatches(tool_name, query_lower)
          \o (IF NameMentioned(tool_name, query_lower)
              THEN << tool_name >> ELSE << >>) ]


\* score and matched_keywords of one tool at the end of the loop body.
ScoreTool(tool_name, query_lower) ==
    [ tool |-> tool_name,
      score |-> Len(KeywordMatches(tool_name, query_lower))
                + NameBonus(tool_name, query_lower),
      matched_keywords |->
          KeywordMatches(tool_name, query_lower)
          \o (IF NameMentioned(tool_name, query_lower)
              THEN << tool_name >> ELSE << >>) ]

\* tool_scores.items(): the tools with score > 0, in catalog order.
ToolScores(query_lower) ==
    SelectSeq([i \in 1..Len(ToolOrder) |-> ScoreTool(ToolOrder[i], query_lower)],
              LAMBDA e : e.score > 0)

RECURSIVE MaxFromMutant(_, _)
\* A faulty variant: a later item of equal score replaces the best one.
MaxFromMutant(best, items) ==
    IF Len(items) = 0 THEN best
    ELSE MaxFromMutant(IF Head(items).score >= best.score THEN Head(items) ELSE best,
                       Tail(items))

RECURSIVE MaxFrom(_, _)
\* max(items, key=score): a later item replaces the best only if it is greater.
MaxFrom(best, items) ==
    IF Len(items) = 0 THEN best
    ELSE MaxFrom(IF Head(items).score > best.score THEN Head(items) ELSE best,
                 Tail(items))

\* A faulty variant: the tool returned by the call before gives way, and a
\* tie goes to the later tool.
BestToolMutant(items) ==
    IF tool_match.type = "dict" /\ "tool" \in DOMAIN tool_match.v
    THEN MaxFromMutant(Head(items), Tail(items))
    ELSE MaxFrom(Head(items), Tail(items))

\* best_tool = max(tool_scores.items(), key=lambda x: x[1]["score"])
BestTool(items) == MaxFrom(Head(items), Tail(items))

\* A faulty variant: the divisor is keywords + 3.
MaxPossibleScoreMutant(tool_name) == Len(AVAILABLE_TOOLS[tool_name].keywords) + 3

\* max_possible_score = len(keywords) + 2
MaxPossibleScore(tool_name) == Len(AVAILABLE_TOOLS[tool_name].keywords) + 2

\* confidence = min(score / max_possible_score, 1.0)
Confidence(score, tool_name) == MinOne(Frac(score, MaxPossibleScore(tool_name)))

\* match_tool_to_query(query): the returned dict.
match_tool_to_query(q) ==
    LET query_lower == Lower(q)
        scores == ToolScores(query_lower)
    IN  IF Len(scores) = 0
        THEN [ success |-> FALSE,
               message |-> "No matching tools found for the query",
               query |-> q,
               available_tools |-> ToolOrder ]
        ELSE LET best == BestTool(scores)
             IN  [ success |-> TRUE,
                   tool |-> best.tool,
                   confidence |-> Confidence(best.score, best.tool),
                   matched_keywords |-> best.matched_keywords,
                   tool_info |-> AVAILABLE_TOOLS[best.tool],
                   query |-> q ]

----------------------------------------------------------------------------
(* Python values *)

PyNone == [ type |-> "NoneType" ]
PyDict(d) == [ type |-> "dict", v |-> d ]
PyList(xs) == [ type |-> "list", v |-> xs ]

IsDict(x) == x.type = "dict"

\* bool(x)
Truthy(x) ==
    CASE x.type = "NoneType" -> FALSE
      [] x.type = "dict" -> DOMAIN x.v # {}
      [] x.type = "list" -> Len(x.v) > 0

\* d.get(key, default) on the items of a dict
Get(d, key, default) == IF key \in DOMAIN d THEN d[key] ELSE default

----------------------------------------------------------------------------
(* The keyword matcher on its own: match_tool_to_query applied to queries *)

NoResult == [ op |-> "none" ]

\* No run of main and no call of execute_script is in the state.
Detached ==
    /\ argv = << >>
    /\ call = << >>
    /\ cmd = << >>
    /\ output_dirs = { }

\* The agent as __init__ leaves it.
Constructed ==
    /\ model = "None"
    /\ available_tools = << >>
    /\ available_scripts = << >>
    /\ available_las_files = << >>

MatchInit ==
    /\ pc = "call"
    /\ query \in Queries
    /\ action = "match_tool_to_query"
    /\ llm_config = PyNone
    /\ Constructed
    /\ Detached
    /\ las_dir = << >>
    /\ tool_scores = << >>
    /\ tool_match = PyNone
    /\ match_result = PyNone
    /\ result = NoResult

\* One call of match_tool_to_query(query).
MatchCall ==
    /\ pc = "call"
    /\ tool_scores' = ToolScores(Lower(query))
    /\ tool_match' = PyDict(match_tool_to_query(query))
    /\ pc' = "returned"
    /\ UNCHANGED << match_result, argv, execVars, action, query, llm_config, model, available_tools,
                    available_scripts, available_las_files, las_dir, result >>

\* The caller comes back with another query.
MatchAgain ==
    /\ pc = "returned"
    /\ \E q \in Queries : query' = q
    /\ tool_scores' = << >>
    /\ tool_match' = PyNone
    /\ pc' = "call"
    /\ UNCHANGED << match_result, argv, execVars, action, llm_config, model, available_tools,
                    available_scripts, available_las_files, las_dir, result >>

MatchNext == MatchCall \/ MatchAgain

MatchSpec == MatchInit /\ [][MatchNext]_vars

----------------------------------------------------------------------------
(* Claims about the keyword matcher *)

Tools == { ToolOrder[i] : i \in 1..Len(ToolOrder) }

PositionOf(tool_name) == CHOOSE i \in 1..Len(ToolOrder) : ToolOrder[i] = tool_name

\* The declared keywords of a tool that occur in the lower-cased query.
DeclaredIn(tool_name, q) ==
    { AVAILABLE_TOOLS[tool_name].keywords[i] :
        i \in { j \in 1..Len(AVAILABLE_TOOLS[tool_name].keywords) :
                  Contains(Spell[AVAILABLE_TOOLS[tool_name].keywords[j]], Lower(q)) } }

SpacedNameIn(tool_name, q) == Contains(ReplaceUnderscore(Spell[tool_name]), Lower(q))

UnderscoreNameIn(tool_name, q) == Contains(Spell[tool_name], Lower(q))

NameIn(tool_name, q) == SpacedNameIn(tool_name, q) \/ UnderscoreNameIn(tool_name, q)

Scored(tool_name) == \E i \in 1..Len(tool_scores) : tool_scores[i].tool = tool_name

EntryOf(tool_name) ==
    tool_scores[CHOOSE i \in 1..Len(tool_scores) : tool_scores[i].tool = tool_name]

\* The score the last call gave a tool (0 for a tool it left out of tool_scores).
ScoreOf(tool_name) == IF Scored(tool_name) THEN EntryOf(tool_name).score ELSE 0

\* The confidence the last call's arithmetic gives a tool.
ConfidenceOf(tool_name) == Confidence(ScoreOf(tool_name), tool_name)

\* The same for another query.
ConfidenceFor(tool_name, q) == Confidence(ScoreTool(tool_name, Lower(q)).score, tool_name)

Occurrences(x, xs) == Cardinality({ i \in 1..Len(xs) : xs[i] = x })

Matched == pc = "returned" /\ tool_match.v.success

\* What the matcher's arithmetic makes of every query, tool by tool: the
\* declared keywords found, whether the name is mentioned, the confidence.
QueryFacts ==
    [ t \in Tools |->
        { [ declared |-> DeclaredIn(t, q),
            named |-> NameIn(t, q),
            confidence |-> ConfidenceFor(t, q) ] : q \in Queries } ]

\* C1: for every query and every tool of the catalog the score is at most
\* keyword_count + 2 and the confidence lies in [0,1]; and the confidence of a
\* tool is not lower for any query that contains every declared keyword of
\* the tool this query contains and mentions the tool's name if this query
\* does.
C1_ConfidenceBoundedMonotone ==
    pc = "returned" =>
        \A t \in Tools :
            LET declared == DeclaredIn(t, query)
                named == NameIn(t, query)
                confidence == ConfidenceOf(t)
            IN  /\ ScoreOf(t) <= Len(AVAILABLE_TOOLS[t].keywords) + 2
                /\ FracLe(Frac(0, 1), confidence)
                /\ FracLe(confidence, Frac(1, 1))
                /\ \A other \in QueryFacts[t] :
                       ( /\ declared \subseteq other.declared
                         /\ named => other.named )
                       => FracLe(confidence, other.confidence)

\* A query with some keyword of a tool, and a second one with strictly more
\* of them and a strictly greater confidence.
C1_Witness ==
    /\ pc = "returned"
    /\ \E t \in Tools :
           \E other \in QueryFacts[t] :
               /\ DeclaredIn(t, query) # {}
               /\ DeclaredIn(t, query) \subseteq other.declared
               /\ DeclaredIn(t, query) # other.declared
               /\ NameIn(t, query) = other.named
               /\ FracLt(ConfidenceOf(t), other.confidence)

\* C2: when the lower-cased query contains a tool's identifier with the
\* underscores replaced by spaces, the tool's score is its number of declared
\* keywords found plus exactly 2, and the identifier is recorded once among
\* its matched keywords.
C2_NameBonusOnce ==
    pc = "returned" =>
        \A t \in Tools :
            SpacedNameIn(t, query) =>
                /\ Scored(t)
                /\ EntryOf(t).score = Cardinality(DeclaredIn(t, query)) + 2
                /\ Occurrences(t, EntryOf(t).matched_keywords) = 1

\* Both forms of a tool's name are in the query.
C2_Witness ==
    /\ pc = "returned"
    /\ \E t \in Tools :
           SpacedNameIn(t, query) /\ UnderscoreNameIn(t, query) /\ Scored(t)

\* The score behind the returned confidence, read off the returned matched
\* keywords: one per declared keyword, two for the identifier.
ReturnedScore ==
    LET r == tool_match.v
    IN  Cardinality({ i \in 1..Len(r.matched_keywords) :
                        InList(r.matched_keywords[i], r.tool_info.keywords) })
        + 2 * Occurrences(r.tool, r.matched_keywords)

\* C3 as stated: confidence = min(score / (keyword_count + 3), 1.0).
C3_Original ==
    Matched =>
        FracEq(tool_match.v.confidence,
               MinOne(Frac(ReturnedScore, Len(tool_match.v.tool_info.keywords) + 3)))

\* C3: the returned confidence equals min(score / (keyword_count + 2), 1.0).
C3_ConfidenceFormula ==
    Matched =>
        /\ ReturnedScore = ScoreOf(tool_match.v.tool)
        /\ FracEq(tool_match.v.confidence,
                  MinOne(Frac(ReturnedScore, Len(tool_match.v.tool_info.keywords) + 2)))

C3_Witness ==
    /\ Matched
    /\ ReturnedScore = 4
    /\ tool_match.v.confidence = Frac(4, 7)

\* C4 as stated: every tool whose output category equals the query's coarse
\* intent has one point more than its keywords and its name give it.
C4_Original ==
    pc = "returned" =>
        \A t \in Tools :
            ScoreOf(t) = Cardinality(DeclaredIn(t, query))
                         + (IF NameIn(t, query) THEN 2 ELSE 0)
                         + (IF Intent(Lower(query)) = AVAILABLE_TOOLS[t].output_type
                            THEN 1 ELSE 0)

\* C4: the matcher has no intent step; a tool's score is the number of its
\* declared keywords found in the lower-cased query, plus 2 when its name is
\* mentioned, whatever the tool's output category.
C4_ScoreWithoutIntent ==
    pc = "returned" =>
        \A t \in Tools :
            ScoreOf(t) = Cardinality(DeclaredIn(t, query))
                         + (IF NameIn(t, query) THEN 2 ELSE 0)

\* A query whose coarse intent is the output category of a tool it scores.
C4_Witness ==
    /\ pc = "returned"
    /\ \E t \in Tools :
           /\ Scored(t)
           /\ Intent(Lower(query)) = AVAILABLE_TOOLS[t].output_type

\* C5: the selected tool has the highest confidence of the tools with a
\* positive score, and every tool before it in catalog order has a strictly
\* lower one; the query "reservoir" selects porosity_calculator.
C5_BestFirstInCatalogOrder ==
    Matched =>
        /\ Scored(tool_match.v.tool)
        /\ \A t \in Tools :
               Scored(t) =>
                   /\ FracLe(ConfidenceOf(t), tool_match.v.confidence)
                   /\ PositionOf(t) < PositionOf(tool_match.v.tool)
                          => FracLt(ConfidenceOf(t), tool_match.v.confidence)
        /\ query = Phrases[5] => tool_match.v.tool = "porosity_calculator"

\* Two tools tie on the shared keyword and the earlier one is returned.
C5_Witness ==
    /\ Matched
    /\ query = Phrases[5]
    /\ Scored("porosity_calculator")
    /\ Scored("permeability_estimator")
    /\ ScoreOf("porosity_calculator") = ScoreOf("permeability_estimator")
    /\ tool_match.v.tool = "porosity_calculator"

----------------------------------------------------------------------------
(* langchain_scripts/langchain_agent.py: the environment of a request *)

\* The two actions main dispatches to.
Actions == { "check_clarification", "process_query" }

\* The queries requests are made with: "hello", "reservoir", the scenario
\* query and a query with five keywords of one tool.
RequestQueries == { Phrases[1], Phrases[5], ScenarioQuery, ConfidentQuery }

\* The llm_config values: none, the three known providers, an unknown
\* provider, and JSON that is not an object.
Configs ==
    { PyNone,
      PyDict([ provider |-> "ollama" ]),
      PyDict([ provider |-> "openai" ]),
      PyDict([ provider |-> "anthropic" ]),
      PyDict([ provider |-> "gemini" ]),
      PyList(<< "openai" >>) }

\* What the LAS directory may hold, in enumeration order.
LasDirs == { << >>, << "sample_well_01" >>, << "well_02", "sample_well_01" >> }

\* The scripts directory, as list_available_scripts reports it.
ScriptOrder ==
    << "depth_visualization", "gamma_ray_analyzer", "lithology_classifier",
       "porosity_calculator", "resistivity_analyzer" >>

list_available_scripts ==
    [ i \in 1..Len(ScriptOrder) |->
        [ name |-> ScriptOrder[i], filename |-> << ScriptOrder[i], ".py" >> ] ]

\* How one subprocess call of a discovery service can end.
ServiceOutcomes ==
    { "ok", "nonzero_exit", "empty_output", "unparsable_output", "timeout",
      "spawn_failure" }

\* _call_mcp_*_server: the parsed stdout of a call that exits 0 with JSON on
\* stdout, [] in every other case.
CallServer(outcome, reply) == IF outcome = "ok" THEN reply ELSE PyList(<< >>)

\* What a chat model of a provider can answer to the classifier prompt.
ChatReplies ==
    { [ kind |-> "raises" ],
      [ kind |-> "text" ],
      [ kind |-> "json", value |-> PyList(<< "gamma_analyzer" >>) ],
      [ kind |-> "json", value |-> PyDict([ confidence |-> Frac(9, 10) ]) ],
      [ kind |-> "json", value |-> PyDict([ confidence |-> Frac(1, 2) ]) ] }
    \cup { [ kind |-> "json",
             value |-> PyDict([ tool |-> t, confidence |-> c,
                                reasoning |-> "llm" ]) ] :
             t \in { "gamma_analyzer" },
             c \in { Frac(0, 1), Frac(3, 10), Frac(7, 10), Frac(9, 10) } }

----------------------------------------------------------------------------
(* langchain_scripts/langchain_agent.py: the agent *)

Min(a, b) == IF a <= b THEN a ELSE b

\* `llm_config and llm_config.get('provider')`, for a config on which .get
\* exists.
HasProvider(cfg) == Truthy(cfg) /\ "provider" \in DOMAIN cfg.v

\* The model the branches of initialize_agent construct.
ModelFor(cfg) ==
    IF ~HasProvider(cfg) THEN "OllamaMockModel"
    ELSE CASE cfg.v.provider = "openai" -> "ChatOpenAI"
           [] cfg.v.provider = "anthropic" -> "ChatAnthropic"
           [] cfg.v.provider = "ollama" -> "OllamaMockModel"
           [] OTHER -> "MockChatModel"

\* The ways the model construction of initialize_agent can end: a truthy
\* config that is no dict has no .get; the constructor of a provider's
\* client may raise.
ConstructionOutcomes(cfg) ==
    IF Truthy(cfg) /\ ~IsDict(cfg) THEN { "raises" }
    ELSE IF ModelFor(cfg) \in { "ChatOpenAI", "ChatAnthropic" } THEN { "ok", "raises" }
    ELSE { "ok" }

\* What model.invoke(messages).content parses to, for the two mock models.
MockReply(m) ==
    IF m = "OllamaMockModel"
    THEN PyDict([ provider |-> "ollama", analysis |-> "Using Ollama configuration",
                  confidence |-> Frac(9, 10) ])
    ELSE PyDict([ analysis |-> "Mock analysis for fallback",
                  action |-> "analyze_query", confidence |-> Frac(8, 10) ])

\* The except branch of the parse: the first available tool at 0.5, or None.
FallbackSelection(tools) ==
    IF Len(tools) > 0
    THEN PyDict([ tool |-> tools[1].name, confidence |-> Frac(1, 2),
                  reasoning |-> "Fallback selection" ])
    ELSE PyNone

\* _llm_match_tool_to_query with the model answering `reply`.
LlmMatchResult(m, reply, tools) ==
    IF m = "None" THEN PyNone
    ELSE IF m \in { "OllamaMockModel", "MockChatModel" } THEN MockReply(m)
    ELSE CASE reply.kind = "raises" -> PyNone
           [] reply.kind = "text" -> FallbackSelection(tools)
           [] reply.kind = "json" -> reply.value

\* `tool_name in script.get('name', '') or script.get('name', '') in tool_name`
ScriptMatches(tool_name, script) ==
    \/ Contains(Spell[tool_name], Spell[script.name])
    \/ Contains(Spell[script.name], Spell[tool_name])

\* The name of the first matching script, or the tool name when none matches.
ScriptNameFor(tool_name, scripts) ==
    IF \E i \in 1..Len(scripts) : ScriptMatches(tool_name, scripts[i])
    THEN scripts[CHOOSE i \in 1..Len(scripts) :
                   /\ ScriptMatches(tool_name, scripts[i])
                   /\ \A j \in 1..(i - 1) : ~ScriptMatches(tool_name, scripts[j])].name
    ELSE tool_name

\* `available_files[0] if available_files else "sample_well_01"`
SelectedFile(available_files) ==
    IF Len(available_files) > 0 THEN available_files[1] ELSE "sample_well_01"

\* A faulty variant: the load step is planned only when a file is available.
CreateExecutionPlanMutant(match, available_files, scripts) ==
    LET tool_name == Get(match, "tool", "")
        selected_file == SelectedFile(available_files)
        load == IF Len(available_files) > 0
                THEN << [ step |-> 1,
                          description |-> << "Load LAS file: ", selected_file, ".las" >>,
                          tool |-> "mcp_resources_server",
                          action |-> "load_las_file",
                          params |-> [ file |-> selected_file ] ] >>
                ELSE << >>
    IN  load \o
        << [ step |-> Len(load) + 1,
             description |-> << "Execute ", tool_name, " analysis" >>,
             tool |-> "mcp_scripts_server",
             action |-> "execute_script",
             params |-> [ script |-> ScriptNameFor(tool_name, scripts),
                          las_file |-> selected_file,
                          tool |-> tool_name ] ],
           [ step |-> Len(load) + 2,
             description |-> << "Generate output file" >>,
             tool |-> "file_system",
             action |-> "save_output",
             params |-> [ output_dir |-> "output_path" ] ] >>

\* _create_execution_plan
CreateExecutionPlan(match, available_files, scripts) ==
    LET tool_name == Get(match, "tool", "")
        selected_file == SelectedFile(available_files)
    IN  << [ step |-> 1,
             description |-> << "Load LAS file: ", selected_file, ".las" >>,
             tool |-> "mcp_resources_server",
             action |-> "load_las_file",
             params |-> [ file |-> selected_file ] ],
           [ step |-> 2,
             description |-> << "Execute ", tool_name, " analysis" >>,
             tool |-> "mcp_scripts_server",
             action |-> "execute_script",
             params |-> [ script |-> ScriptNameFor(tool_name, scripts),
                          las_file |-> selected_file,
                          tool |-> tool_name ] ],
           [ step |-> 3,
             description |-> << "Generate output file" >>,
             tool |-> "file_system",
             action |-> "save_output",
             params |-> [ output_dir |-> "output_path" ] ] >>

\* The suggestion of the i-th tool (i counts from 1; the code's index is i-1).
ToolSuggestion(i, tool, available_files) ==
    IF Len(available_files) > 0 /\ i - 1 < Len(available_files)
    THEN << tool.description, " with ", available_files[i], ".las" >>
    ELSE IF Len(available_files) > 0
    THEN << tool.description, " with ", available_files[1], ".las" >>
    ELSE << tool.description >>

ScriptSuggestion(script, available_files) ==
    IF Len(available_files) > 0
    THEN << "Run ", script.name, " script with ", available_files[1], ".las" >>
    ELSE << "Run ", script.name, " script" >>

\* A faulty variant: only the tools are suggested, not the scripts.
GenerateSuggestionsMutant(tools, available_files, scripts) ==
    LET all == [ i \in 1..Min(3, Len(tools)) |->
                   ToolSuggestion(i, tools[i], available_files) ]
    IN  SubSeq(all, 1, Min(5, Len(all)))

\* _generate_suggestions
GenerateSuggestions(tools, available_files, scripts) ==
    LET all == [ i \in 1..Min(3, Len(tools)) |->
                   ToolSuggestion(i, tools[i], available_files) ]
               \o [ i \in 1..Min(2, Len(scripts)) |->
                      ScriptSuggestion(scripts[i], available_files) ]
    IN  SubSeq(all, 1, Min(5, Len(all)))

\* tool_match.get raises on a truthy value that is no dict.
GetRaises(match) == Truthy(match) /\ ~IsDict(match)

\* A faulty variant: the gate opens at 0.5 and above.
ClearEnoughMutant(match) ==
    Truthy(match) /\ FracLe(Frac(1, 2), Get(match.v, "confidence", Frac(0, 1)))

\* `tool_match and tool_match.get('confidence', 0) > 0.7`
ClearEnough(match) ==
    Truthy(match) /\ FracLt(Frac(7, 10), Get(match.v, "confidence", Frac(0, 1)))

\* A faulty variant: 0 is reported for a match without a confidence.
ClarifyConfidenceMutant(match) ==
    IF Truthy(match) THEN Get(match.v, "confidence", Frac(0, 1)) ELSE Frac(0, 1)

\* `tool_match.get('confidence', 0.3) if tool_match else 0.3`
ClarifyConfidence(match) ==
    IF Truthy(match) THEN Get(match.v, "confidence", Frac(3, 10)) ELSE Frac(3, 10)

\* A faulty variant: the plan is made before the gate and the Clarify branch
\* returns it along with the suggestions.
CheckClarificationResultMutant(match, tools, available_files, scripts) ==
    IF GetRaises(match)
    THEN [ needsClarification |-> TRUE,
           confidence |-> Frac(0, 1),
           suggestions |-> << << "Please try rephrasing your query" >> >>,
           message |-> << "Error analyzing query: ", "AttributeError" >>,
           agentPlan |-> PyNone ]
    ELSE IF ClearEnough(match)
    THEN [ needsClarification |-> FALSE,
           confidence |-> Get(match.v, "confidence", Frac(8, 10)),
           suggestions |-> << >>,
           message |-> << "I can create an execution plan for your analysis." >>,
           agentPlan |-> PyList(CreateExecutionPlan(match.v, available_files, scripts)) ]
    ELSE [ needsClarification |-> TRUE,
           confidence |-> ClarifyConfidence(match),
           suggestions |-> GenerateSuggestions(tools, available_files, scripts),
           message |-> << "I need more information to create an execution plan." >>,
           agentPlan |-> IF Truthy(match)
                         THEN PyList(CreateExecutionPlan(match.v, available_files, scripts))
                         ELSE PyNone ]

\* check_clarification, from the match on: the returned dict.
CheckClarificationResult(match, tools, available_files, scripts) ==
    IF GetRaises(match)
    THEN [ needsClarification |-> TRUE,
           confidence |-> Frac(0, 1),
           suggestions |-> << << "Please try rephrasing your query" >> >>,
           message |-> << "Error analyzing query: ", "AttributeError" >>,
           agentPlan |-> PyNone ]
    ELSE IF ClearEnough(match)
    THEN [ needsClarification |-> FALSE,
           confidence |-> Get(match.v, "confidence", Frac(8, 10)),
           suggestions |-> << >>,
           message |-> << "I can create an execution plan for your analysis." >>,
           agentPlan |-> PyList(CreateExecutionPlan(match.v, available_files, scripts)) ]
    ELSE [ needsClarification |-> TRUE,
           confidence |-> ClarifyConfidence(match),
           suggestions |-> GenerateSuggestions(tools, available_files, scripts),
           message |-> << "I need more information to create an execution plan." >>,
           agentPlan |-> PyNone ]

\* A faulty variant: the error envelope reports the failed match as a step.
ErrorEnvelopeMutant(q, error) ==
    [ id |-> << "error_", "time" >>,
      query |-> q,
      agentResponse |->
          [ steps |-> << [ tool |-> "mcp_tools_server",
                           action |-> "match_tool_to_query",
                           result |-> << "Error: ", error >>,
                           confidence |-> Frac(0, 1) ] >>,
            finalResult |-> [ script |-> << >>,
                              lasFile |-> << >>,
                              tool |-> "",
                              confidence |-> Frac(0, 1),
                              reasoning |-> << "Error: ", error >> ] ],
      status |-> "error",
      errorMessage |-> error,
      processingTime |-> "elapsed_ms" ]

\* A faulty variant: the error envelope carries the error in place of the
\* final result.
ErrorEnvelopeNoResult(q, error) ==
    [ id |-> << "error_", "time" >>,
      query |-> q,
      agentResponse |-> [ steps |-> << >> ],
      status |-> "error",
      errorMessage |-> error,
      processingTime |-> "elapsed_ms" ]

\* The except branch of process_query.
ErrorEnvelope(q, error) ==
    [ id |-> << "error_", "time" >>,
      query |-> q,
      agentResponse |->
          [ steps |-> << >>,
            finalResult |-> [ script |-> << >>,
                              lasFile |-> << >>,
                              tool |-> "",
                              confidence |-> Frac(0, 1),
                              reasoning |-> << "Error: ", error >> ] ],
      status |-> "error",
      errorMessage |-> error,
      processingTime |-> "elapsed_ms" ]

\* A faulty variant: a confidence of exactly 0.3 is refused too.
RefusedMutant(match) ==
    ~Truthy(match) \/ FracLe(Get(match.v, "confidence", Frac(0, 1)), Frac(3, 10))

\* `not tool_match or tool_match.get('confidence', 0) < 0.3`
Refused(match) ==
    ~Truthy(match) \/ FracLt(Get(match.v, "confidence", Frac(0, 1)), Frac(3, 10))

\* The try branch of process_query for a match that is not refused and has
\* a tool.
CompletedEnvelope(q, match, available_files, scripts) ==
    LET tool_name == match.tool
        selected_file == SelectedFile(available_files)
        script_name == ScriptNameFor(tool_name, scripts)
    IN  [ id |-> << "langchain_", "time" >>,
          query |-> q,
          agentResponse |->
              [ steps |->
                  << [ tool |-> "mcp_tools_server",
                       action |-> "match_tool_to_query",
                       result |-> << "Matched query to ", tool_name >>,
                       confidence |-> Get(match, "confidence", Frac(8, 10)) ],
                     [ tool |-> "mcp_resources_server",
                       action |-> "select_las_file",
                       result |-> << "Selected ", selected_file,
                                     ".las from available files" >>,
                       confidence |-> Frac(9, 10) ],
                     [ tool |-> "mcp_scripts_server",
                       action |-> "execute_script",
                       result |-> << "Executed ", script_name >>,
                       confidence |-> Frac(95, 100) ] >>,
                finalResult |->
                  [ script |-> << script_name, ".py" >>,
                    lasFile |-> << selected_file, ".las" >>,
                    tool |-> tool_name,
                    confidence |-> Get(match, "confidence", Frac(8, 10)),
                    reasoning |->
                        IF "reasoning" \in DOMAIN match
                        THEN << match.reasoning >>
                        ELSE << "Matched query to ", tool_name,
                                " using MCP tools server" >> ] ],
          status |-> "completed",
          processingTime |-> "elapsed_ms" ]

\* A faulty variant: the lookup of the match's tool is outside the try
\* block, so a match without a tool lets the KeyError out of process_query.
ProcessQueryResultMutant(q, match, available_files, scripts) ==
    IF GetRaises(match) THEN ErrorEnvelope(q, "AttributeError")
    ELSE IF Refused(match)
    THEN ErrorEnvelope(q, "Could not match query to any available tool with sufficient confidence")
    ELSE IF "tool" \notin DOMAIN match.v THEN [ exception |-> "KeyError" ]
    ELSE CompletedEnvelope(q, match.v, available_files, scripts)

\* process_query, from the match on: the returned envelope.
ProcessQueryResult(q, match, available_files, scripts) ==
    IF GetRaises(match) THEN ErrorEnvelope(q, "AttributeError")
    ELSE IF Refused(match)
    THEN ErrorEnvelope(q, "Could not match query to any available tool with sufficient confidence")
    ELSE IF "tool" \notin DOMAIN match.v THEN ErrorEnvelope(q, "'tool'")
    ELSE CompletedEnvelope(q, match.v, available_files, scripts)

----------------------------------------------------------------------------
(* langchain_scripts/langchain_agent.py: a request, step by step *)

\* A constructed agent, no request made yet.
Init ==
    /\ pc = "idle"
    /\ action = "none"
    /\ query = << >>
    /\ llm_config = PyNone
    /\ Constructed
    /\ Detached
    /\ las_dir \in LasDirs
    /\ tool_scores = << >>
    /\ tool_match = PyNone
    /\ match_result = PyNone
    /\ result = NoResult

\* check_clarification(query, llm_config) or process_query(query, llm_config)
\* is called on the agent: the first call, or a later one on the same agent.
Request ==
    /\ pc \in { "idle", "done" }
    /\ \E a \in Actions, q \in RequestQueries, cfg \in Configs :
           /\ action' = a
           /\ query' = q
           /\ llm_config' = cfg
    /\ tool_match' = PyNone
    /\ result' = NoResult
    /\ pc' = "init"
    /\ UNCHANGED << match_result, argv, execVars, model, available_tools, available_scripts,
                    available_las_files, las_dir, tool_scores >>

\* initialize_agent up to the call of _load_mcp_server_data: the model is
\* set and the loading starts, or an exception ends the initialisation with
\* nothing loaded.
InitializeAgent ==
    /\ pc = "init"
    /\ \E outcome \in ConstructionOutcomes(llm_config) :
           IF outcome = "ok"
           THEN /\ model' = ModelFor(llm_config)
                /\ pc' = "load_tools"
           ELSE /\ model' = model
                /\ pc' = "match"
    /\ UNCHANGED << match_result, argv, execVars, action, query, llm_config, available_tools,
                    available_scripts, available_las_files, las_dir,
                    tool_scores, tool_match, result >>

\* self.available_tools = await self._call_mcp_tools_server('list_available_tools')
LoadTools ==
    /\ pc = "load_tools"
    /\ \E outcome \in ServiceOutcomes :
           available_tools' = CallServer(outcome, PyList(list_available_tools)).v
    /\ pc' = "load_scripts"
    /\ UNCHANGED << match_result, argv, execVars, action, query, llm_config, model, available_scripts,
                    available_las_files, las_dir, tool_scores, tool_match,
                    result >>

\* self.available_scripts = await self._call_mcp_scripts_server('list_available_scripts')
LoadScripts ==
    /\ pc = "load_scripts"
    /\ \E outcome \in ServiceOutcomes :
           available_scripts' = CallServer(outcome, PyList(list_available_scripts)).v
    /\ pc' = "load_las"
    /\ UNCHANGED << match_result, argv, execVars, action, query, llm_config, model, available_tools,
                    available_las_files, las_dir, tool_scores, tool_match,
                    result >>

\* self.available_las_files = await self._call_mcp_resources_server('list_las_files')
LoadLasFiles ==
    /\ pc = "load_las"
    /\ \E outcome \in ServiceOutcomes :
           available_las_files' = CallServer(outcome, PyList(las_dir)).v
    /\ pc' = "match"
    /\ UNCHANGED << match_result, argv, execVars, action, query, llm_config, model, available_tools,
                    available_scripts, las_dir, tool_scores, tool_match,
                    result >>

\* A faulty variant: any truthy reply is taken for the match.
IsMatchMutant(reply) == Truthy(reply)

\* `match_result and isinstance(match_result, dict)`
IsMatch(reply) == Truthy(reply) /\ IsDict(reply)

\* _match_tool_to_query: the call of the tools server; a non-empty dict is
\* the match, anything else hands over to the classifier.
MatchService ==
    /\ pc = "match"
    /\ \E outcome \in ServiceOutcomes \cup { "not_an_object", "empty_object" } :
           LET reply ==
                   CASE outcome = "not_an_object" -> PyList(<< "gamma_analyzer" >>)
                     [] outcome = "empty_object" -> PyDict(<< >>)
                     [] OTHER -> CallServer(outcome, PyDict(match_tool_to_query(query)))
           IN  IF IsMatch(reply)
               THEN /\ tool_match' = reply
                    /\ match_result' = PyNone
                    /\ pc' = "gate"
               ELSE /\ tool_match' = tool_match
                    /\ match_result' = reply
                    /\ pc' = "llm"
    /\ UNCHANGED << argv, execVars, action, query, llm_config, model,
                    available_tools, available_scripts, available_las_files,
                    las_dir, tool_scores, result >>

\* _llm_match_tool_to_query, whose return is the return of
\* _match_tool_to_query.
LlmMatch ==
    /\ pc = "llm"
    /\ \E reply \in ChatReplies :
           tool_match' = LlmMatchResult(model, reply, available_tools)
    /\ match_result' = PyNone
    /\ pc' = "gate"
    /\ UNCHANGED << argv, execVars, action, query, llm_config, model,
                    available_tools, available_scripts, available_las_files,
                    las_dir, tool_scores, result >>

\* check_clarification from the gate to its return.
CheckClarification ==
    /\ pc = "gate"
    /\ action = "check_clarification"
    /\ result' = CheckClarificationResult(tool_match, available_tools,
                                          available_las_files, available_scripts)
    /\ pc' = "done"
    /\ UNCHANGED << match_result, argv, execVars, action, query, llm_config, model, available_tools,
                    available_scripts, available_las_files, las_dir,
                    tool_scores, tool_match >>

\* process_query from the gate to its return.
ProcessQuery ==
    /\ pc = "gate"
    /\ action = "process_query"
    /\ result' = ProcessQueryResult(query, tool_match, available_las_files,
                                    available_scripts)
    /\ pc' = "done"
    /\ UNCHANGED << match_result, argv, execVars, action, query, llm_config, model, available_tools,
                    available_scripts, available_las_files, las_dir,
                    tool_scores, tool_match >>

Next ==
    \/ Request
    \/ InitializeAgent
    \/ LoadTools
    \/ LoadScripts
    \/ LoadLasFiles
    \/ MatchService
    \/ LlmMatch
    \/ CheckClarification
    \/ ProcessQuery

Spec == Init /\ [][Next]_vars

----------------------------------------------------------------------------
(* Claims about check_clarification and process_query *)

ClarificationDone == pc = "done" /\ action = "check_clarification"

ProcessDone == pc = "done" /\ action = "process_query"

\* The match in hand is the keyword matcher's reply.
FromMatcher == IsDict(tool_match) /\ "success" \in DOMAIN tool_match.v

\* The keyword matcher found no tool with a positive score.
NoToolScored == FromMatcher /\ ~tool_match.v.success

\* The confidence the gates read off the match.
MatchConfidence == Get(tool_match.v, "confidence", Frac(0, 1))

Proceeds == ~result.needsClarification /\ result.agentPlan # PyNone

Clarifies == result.needsClarification /\ result.agentPlan = PyNone

\* C6 as stated: for a match on which no tool scored, check_clarification
\* reports the confidence 0.
C6_Original ==
    (ClarificationDone /\ NoToolScored) =>
        /\ "tool" \notin DOMAIN tool_match.v
        /\ FracEq(MatchConfidence, Frac(0, 1))
        /\ FracEq(result.confidence, Frac(0, 1))

\* C6: when no tool scores above zero the match is an ordinary dict with no
\* tool and no confidence (read as 0 by the gate); check_clarification then
\* asks for clarification and reports the confidence 0.3, its default for a
\* match without a confidence.
C6_NoMatchReportsDefault ==
    (ClarificationDone /\ NoToolScored) =>
        /\ "tool" \notin DOMAIN tool_match.v
        /\ "confidence" \notin DOMAIN tool_match.v
        /\ FracEq(MatchConfidence, Frac(0, 1))
        /\ Clarifies
        /\ FracEq(result.confidence, Frac(3, 10))

C6_Witness ==
    /\ ClarificationDone
    /\ NoToolScored
    /\ query = Phrases[1]
    /\ result.needsClarification

\* C7 as stated: the scenario query selects gamma_analyzer with a confidence
\* above 0.6 and the gate proceeds.
C7_Original ==
    (ClarificationDone /\ FromMatcher /\ query = ScenarioQuery) =>
        /\ tool_match.v.success
        /\ tool_match.v.tool = "gamma_analyzer"
        /\ FracLt(Frac(6, 10), tool_match.v.confidence)
        /\ Proceeds

\* C7: the scenario query selects gamma_analyzer on the keywords gamma, ray,
\* formation and analysis with the confidence 4/7, which is below 0.6, and
\* the gate, whose threshold is 0.7, asks for clarification.
C7_ScenarioClarifies ==
    (ClarificationDone /\ FromMatcher /\ query = ScenarioQuery) =>
        /\ tool_match.v.success
        /\ tool_match.v.tool = "gamma_analyzer"
        /\ tool_match.v.matched_keywords = << "gamma", "ray", "formation", "analysis" >>
        /\ FracEq(tool_match.v.confidence, Frac(4, 7))
        /\ FracLt(tool_match.v.confidence, Frac(6, 10))
        /\ Clarifies
        /\ FracEq(result.confidence, Frac(4, 7))

C7_Witness ==
    /\ ClarificationDone
    /\ FromMatcher
    /\ query = ScenarioQuery
    /\ tool_match.v.tool = "gamma_analyzer"
    /\ Len(available_las_files) > 0

\* A suggestion that asks for an input file.
IsProvideInputEntry(suggestion) ==
    suggestion \in { << "Please upload a LAS data file" >>,
                     << "Please provide an input file" >> }

\* C8: with an empty resource inventory check_clarification asks for
\* clarification whatever the confidence, and one of its suggestions asks
\* for an input file.
C8_Claim ==
    (ClarificationDone /\ available_las_files = << >>) =>
        /\ Clarifies
        /\ \E i \in 1..Len(result.suggestions) :
               IsProvideInputEntry(result.suggestions[i])

\* A tool is matched and process_query does not refuse the confidence.
ConfidentMatch ==
    /\ IsDict(tool_match)
    /\ "tool" \in DOMAIN tool_match.v
    /\ ~Refused(tool_match)

NoToolMessage ==
    "Could not match query to any available tool with sufficient confidence"

\* C9: a confident match with an empty resource inventory ends process_query
\* with status "error", no steps and an error other than the no-tool one;
\* and no completed envelope names a file that is not in the inventory.
C9_Claim ==
    ProcessDone =>
        /\ (ConfidentMatch /\ available_las_files = << >>) =>
               /\ result.status = "error"
               /\ result.agentResponse.steps = << >>
               /\ result.errorMessage # NoToolMessage
        /\ result.status = "completed" =>
               InList(result.agentResponse.finalResult.lasFile[1], available_las_files)

\* C10: check_clarification proceeds only on a match that carries a tool and
\* a confidence above 0.7.
C10_Claim ==
    (ClarificationDone /\ Proceeds) =>
        /\ IsDict(tool_match)
        /\ "tool" \in DOMAIN tool_match.v
        /\ FracLt(Frac(7, 10), MatchConfidence)

\* C11: a plan that check_clarification returns has exactly three steps,
\* numbered 1, 2, 3, with the actions load_las_file, execute_script and
\* save_output in that order, whatever the match and the file list.
C11_PlanShape ==
    (ClarificationDone /\ Proceeds) =>
        LET plan == result.agentPlan.v
        IN  /\ Len(plan) = 3
            /\ \A i \in 1..Len(plan) : plan[i].step = i
            /\ [ i \in 1..Len(plan) |-> plan[i].action ]
                   = << "load_las_file", "execute_script", "save_output" >>

\* A plan for a matched tool, made with no file available.
C11_Witness ==
    /\ ClarificationDone
    /\ Proceeds
    /\ available_las_files = << >>
    /\ "tool" \in DOMAIN tool_match.v

EnvelopeStatuses == { "completed", "error" }

\* C12: an error envelope has no steps and a final result with empty script,
\* lasFile and tool, confidence 0.0 and the reasoning "Error: <error>"; a
\* completed envelope has steps.
C12_ErrorEnvelopeBlank ==
    ProcessDone =>
        /\ result.status \in EnvelopeStatuses
        /\ result.status = "error" =>
               /\ result.agentResponse.steps = << >>
               /\ result.agentResponse.finalResult.script = << >>
               /\ result.agentResponse.finalResult.lasFile = << >>
               /\ result.agentResponse.finalResult.tool = ""
               /\ result.agentResponse.finalResult.confidence = Frac(0, 1)
               /\ result.agentResponse.finalResult.reasoning
                      = << "Error: ", result.errorMessage >>
        /\ result.status = "completed" =>
               Len(result.agentResponse.steps) > 0

\* The error is the missing 'tool' key of a match the refusal test let pass.
C12_Witness ==
    /\ ProcessDone
    /\ result.status = "error"
    /\ result.errorMessage = "'tool'"

\* The fields of the envelope process_query returns on success.
SuccessFields == { "id", "query", "agentResponse", "status", "processingTime" }

ResponseFields == { "steps", "finalResult" }

FinalResultFields == { "script", "lasFile", "tool", "confidence", "reasoning" }

\* C13 as stated: every envelope, error or completed, has the same fields at
\* the top level, in agentResponse and in finalResult.
C13_Original ==
    ProcessDone =>
        /\ DOMAIN result = SuccessFields
        /\ DOMAIN result.agentResponse = ResponseFields
        /\ DOMAIN result.agentResponse.finalResult = FinalResultFields

\* C13: the success and the error envelope have the same fields in
\* agentResponse and in finalResult; at the top level the error envelope has
\* the fields of the success envelope and one more, errorMessage.
C13_SameShapeButErrorMessage ==
    ProcessDone =>
        /\ DOMAIN result.agentResponse = ResponseFields
        /\ DOMAIN result.agentResponse.finalResult = FinalResultFields
        /\ result.status = "completed" => DOMAIN result = SuccessFields
        /\ result.status = "error" =>
               DOMAIN result = SuccessFields \cup { "errorMessage" }

C13_Witness ==
    /\ ProcessDone
    /\ result.status = "error"
    /\ "errorMessage" \in DOMAIN result
    /\ DOMAIN result.agentResponse.finalResult = FinalResultFields

\* The keys of the record check_clarification returns.
ClarificationFields ==
    { "needsClarification", "confidence", "suggestions", "message", "agentPlan" }

\* C14: whatever the discovery services, the match service and the chat
\* model do, check_clarification and process_query end by returning a
\* response record, never by letting an exception out.
C14_AlwaysResponds ==
    pc = "done" =>
        /\ "exception" \notin DOMAIN result
        /\ action = "check_clarification" =>
               DOMAIN result = ClarificationFields
        /\ action = "process_query" =>
               /\ SuccessFields \subseteq DOMAIN result
               /\ result.status \in EnvelopeStatuses

\* Nothing was loaded, the match service failed and the chat model gave
\* nothing either; or the match service's reply raised inside the gate.
C14_Witness ==
    /\ pc = "done"
    /\ available_tools = << >>
    /\ available_scripts = << >>
    /\ available_las_files = << >>
    /\ \/ tool_match = PyNone
       \/ GetRaises(tool_match)

\* C16: a request whose initialisation fails before the discovery services
\* are asked goes on to the match with an inventory that holds nothing of an
\* earlier request.
C16_Claim ==
    [][ (pc = "init" /\ pc' = "match") =>
            /\ available_tools' = << >>
            /\ available_scripts' = << >>
            /\ available_las_files' = << >> ]_vars

\* The suggestions are those of _generate_suggestions, not the one of the
\* except branch of check_clarification.
SuggestionsGenerated ==
    ClarificationDone /\ Clarifies /\ ~GetRaises(tool_match)

\* C17: the Clarify path lists at most 5 suggestions; each tool suggestion
\* names its tool with the first available file, and with no file available
\* one suggestion asks to upload a data file.
C17_Claim ==
    SuggestionsGenerated =>
        /\ Len(result.suggestions) <= 5
        /\ Len(available_las_files) > 0 =>
               \A i \in 1..Min(3, Len(available_tools)) :
                   result.suggestions[i]
                       = << available_tools[i].description, " with ",
                            available_las_files[1], ".las" >>
        /\ available_las_files = << >> =>
               \E i \in 1..Len(result.suggestions) :
                   IsProvideInputEntry(result.suggestions[i])

\* C18 as stated: when no tool scored, check_clarification asks for
\* clarification and lists min(3, tool_count) suggestions, or one more.
C18_Original ==
    (ClarificationDone /\ NoToolScored) =>
        /\ Clarifies
        /\ Len(result.suggestions) - Min(3, Len(available_tools)) \in { 0, 1 }

\* C18: when no tool scored, check_clarification asks for clarification and
\* lists min(3, tool_count) tool suggestions followed by min(2, script_count)
\* script suggestions, five at most.
C18_SuggestionCount ==
    (ClarificationDone /\ NoToolScored) =>
        /\ Clarifies
        /\ Len(result.suggestions)
               = Min(5, Min(3, Len(available_tools))
                            + Min(2, Len(available_scripts)))

\* "hello" with the catalog and the scripts loaded: five suggestions.
C18_Witness ==
    /\ ClarificationDone
    /\ NoToolScored
    /\ query = Phrases[1]
    /\ Len(available_tools) = 5
    /\ Len(available_scripts) = 5
    /\ Len(result.suggestions) = 5

----------------------------------------------------------------------------
(* langchain_scripts/langchain_agent.py: main, one run of the program *)

\* The texts given as llm_config_json and what json.loads makes of each: a
\* value, or the JSONDecodeError that main catches.
JsonLoads ==
    "{provider: openai}" :> [ ok |-> FALSE ]
    @@ "[\"openai\"]" :> [ ok |-> TRUE, value |-> PyList(<< "openai" >>) ]
    @@ "{\"model\": \"llama3\"}" :>
           [ ok |-> TRUE, value |-> PyDict([ model |-> "llama3" ]) ]
    @@ "{\"provider\": \"gemini\"}" :>
           [ ok |-> TRUE, value |-> PyDict([ provider |-> "gemini" ]) ]
    @@ "{\"provider\": \"openai\"}" :>
           [ ok |-> TRUE, value |-> PyDict([ provider |-> "openai" ]) ]
    @@ "{\"provider\": \"ollama\"}" :>
           [ ok |-> TRUE, value |-> PyDict([ provider |-> "ollama" ]) ]

ConfigTexts == DOMAIN JsonLoads

\* The action words a caller may type; the last one is no action of main.
MainActions == Actions \cup { "plot" }

MainQueries == { Phrases[1], ConfidentQuery }

\* The command lines: sys.argv[0] is the program, so the code's sys.argv[k]
\* is argv[k + 1] here.
Argvs ==
    { << "langchain_agent.py" >> }
    \cup { << "langchain_agent.py", a >> : a \in MainActions }
    \cup { << "langchain_agent.py", a, q >> : a \in MainActions, q \in MainQueries }
    \cup { << "langchain_agent.py", a, q, t >> :
             a \in MainActions, q \in MainQueries, t \in ConfigTexts }

\* A faulty variant: the configuration argument is counted as required.
ArgsMissingMutant(args) == Len(args) <= 3

\* `len(sys.argv) < 3`
ArgsMissing(args) == Len(args) < 3

\* llm_config as main hands it to the agent.
ParseConfig(args) ==
    IF Len(args) > 3 /\ JsonLoads[args[4]].ok
    THEN JsonLoads[args[4]].value
    ELSE PyNone

\* `result = {"error": f"Unknown action: {action}"}`
UnknownAction(a) == [ error |-> << "Unknown action: ", a >> ]

\* The program is started; no agent exists yet.
MainInit ==
    /\ pc = "main"
    /\ argv \in Argvs
    /\ action = "none"
    /\ query = << >>
    /\ llm_config = PyNone
    /\ model = "unbound"
    /\ available_tools = << >>
    /\ available_scripts = << >>
    /\ available_las_files = << >>
    /\ las_dir \in LasDirs
    /\ tool_scores = << >>
    /\ tool_match = PyNone
    /\ match_result = PyNone
    /\ result = NoResult
    /\ call = << >>
    /\ cmd = << >>
    /\ output_dirs = { }

\* The usage message and sys.exit(1).
MainUsageExit ==
    /\ pc = "main"
    /\ ArgsMissing(argv)
    /\ pc' = "exit_1"
    /\ UNCHANGED << match_result, argv, execVars, action, query, llm_config, model,
                    available_tools, available_scripts, available_las_files,
                    las_dir, tool_scores, tool_match, result >>

\* The arguments are read, the configuration is parsed and the agent is
\* constructed.
MainParse ==
    /\ pc = "main"
    /\ ~ArgsMissing(argv)
    /\ action' = argv[2]
    /\ query' = argv[3]
    /\ llm_config' = ParseConfig(argv)
    /\ model' = "None"
    /\ pc' = "dispatch"
    /\ UNCHANGED << match_result, argv, execVars, available_tools, available_scripts,
                    available_las_files, las_dir, tool_scores, tool_match,
                    result >>

\* The call of agent.check_clarification or agent.process_query.
MainDispatch ==
    /\ pc = "dispatch"
    /\ action \in Actions
    /\ pc' = "init"
    /\ UNCHANGED << match_result, argv, execVars, action, query, llm_config, model,
                    available_tools, available_scripts, available_las_files,
                    las_dir, tool_scores, tool_match, result >>

\* The else branch of the dispatch.
MainUnknownAction ==
    /\ pc = "dispatch"
    /\ action \notin Actions
    /\ result' = UnknownAction(action)
    /\ pc' = "done"
    /\ UNCHANGED << match_result, argv, execVars, action, query, llm_config, model,
                    available_tools, available_scripts, available_las_files,
                    las_dir, tool_scores, tool_match >>

\* print(json.dumps(result)); an exception out of the agent is printed as an
\* error record and ends the run with sys.exit(1).
MainPrint ==
    /\ pc = "done"
    /\ IF "exception" \in DOMAIN result
       THEN /\ result' = [ error |-> result.exception, action |-> action,
                           query |-> query ]
            /\ pc' = "exit_1"
       ELSE /\ result' = result
            /\ pc' = "exit_0"
    /\ UNCHANGED << match_result, argv, execVars, action, query, llm_config, model,
                    available_tools, available_scripts, available_las_files,
                    las_dir, tool_scores, tool_match >>

MainNext ==
    \/ MainUsageExit
    \/ MainParse
    \/ MainDispatch
    \/ MainUnknownAction
    \/ InitializeAgent
    \/ LoadTools
    \/ LoadScripts
    \/ LoadLasFiles
    \/ MatchService
    \/ LlmMatch
    \/ CheckClarification
    \/ ProcessQuery
    \/ MainPrint

MainSpec == MainInit /\ [][MainNext]_vars

\* The third argument is there and is malformed: no JSON, no object, an
\* object without provider or with an unknown one, or a provider whose
\* client could not be constructed (the agent of this run has no model).
MalformedConfig ==
    /\ Len(argv) > 3
    /\ LET parsed == JsonLoads[argv[4]]
       IN  \/ ~parsed.ok
           \/ ~IsDict(parsed.value)
           \/ ~HasProvider(parsed.value)
           \/ ModelFor(parsed.value) = "MockChatModel"
           \/ model = "None"

\* The match the same run has in hand when no configuration is given: the
\* keyword service's reply when there is one, else the reply of the default
\* model.
DefaultMatch ==
    IF FromMatcher THEN tool_match
    ELSE LlmMatchResult(ModelFor(PyNone), [ kind |-> "raises" ], available_tools)

\* C15: a run with a malformed configuration ends with the decision
\* (check_clarification) or the status (process_query) of the same run with
\* no configuration.
C15_Claim ==
    (pc = "done" /\ action \in Actions /\ MalformedConfig) =>
        /\ action = "check_clarification" =>
               result.needsClarification
                   = CheckClarificationResult(DefaultMatch, available_tools,
                         available_las_files, available_scripts).needsClarification
        /\ action = "process_query" =>
               result.status
                   = ProcessQueryResult(query, DefaultMatch, available_las_files,
                                        available_scripts).status

\* C20: a run without action or query ends with exit status 1 and nothing
\* done: no agent, no refresh, no match, no result. A run with both never
\* takes that exit: what it ends with is a printed result, which for an
\* unknown action is the error record naming it.
C20_MainExits ==
    /\ Len(argv) < 3 =>
           /\ pc \in { "main", "exit_1" }
           /\ model = "unbound"
           /\ available_tools = << >>
           /\ available_scripts = << >>
           /\ available_las_files = << >>
           /\ tool_scores = << >>
           /\ tool_match = PyNone
           /\ result = NoResult
    /\ pc = "exit_1" => Len(argv) < 3
    /\ pc = "exit_0" =>
           /\ result # NoResult
           /\ "exception" \notin DOMAIN result
           /\ action \notin Actions => result = UnknownAction(action)

\* An action without a query: the usage exit.
C20_Witness ==
    /\ pc = "exit_1"
    /\ Len(argv) = 2
    /\ model = "unbound"

----------------------------------------------------------------------------
(* mcp_servers/scripts_server.py: execute_script, and the scripts it runs *)

PyStr(text) == [ type |-> "str", v |-> text ]

\* The file names a caller may give: with the extension, and without it.
LasFileNames ==
    { << "sample_well_01", ".las" >>, << "well_02", ".las" >>,
      << "sample_well_01" >> }

\* The calls of execute_script(script_name, las_file, tool).
ExecCalls ==
    [ script_name : { "depth_visualization", "gamma_ray_analyzer", "depth_plotter" },
      las_file : LasFileNames,
      tool : { PyNone, PyStr(""), PyStr("depth_plotter") } ]

\* The second-resolution timestamps that name the output directories.
Timestamps == { "2025-01-01_10-00-00", "2025-01-01_10-00-01" }

\* `script_path.exists()`
ScriptExists(script_name) ==
    \E i \in 1..Len(ScriptOrder) : ScriptOrder[i] = script_name

\* `las_path.exists()`
LasExists(las_file, dir) ==
    \E i \in 1..Len(dir) : las_file = << dir[i], ".las" >>

ScriptPath(script_name) == << "mcp_resources/scripts/", script_name, ".py" >>

LasPath(las_file) == << "mcp_resources/las_files/" >> \o las_file

\* `if tool:`
ToolGiven(tool) == tool.type = "str" /\ tool.v # ""

\* `cmd = [sys.executable, str(script_path), str(las_path)]`, with the tool
\* appended when one is given.
Command(c) ==
    << << "python" >>, ScriptPath(c.script_name), LasPath(c.las_file) >>
    \o (IF ToolGiven(c.tool) THEN << << c.tool.v >> >> ELSE << >>)

\* sys.argv of the script: the command line without the interpreter.
ScriptArgv(command) == SubSeq(command, 2, Len(command))

\* The __main__ block of a bundled script: the usage exit unless sys.argv has
\* three entries, else the processing, which returns True or raises.
ScriptProcess(script_argv, processing) ==
    IF Len(script_argv) # 3
    THEN [ returncode |-> 1, stdout |-> "Usage", stderr |-> "" ]
    ELSE IF processing = "saved"
    THEN [ returncode |-> 0, stdout |-> "Processing completed successfully",
           stderr |-> "" ]
    ELSE [ returncode |-> 1, stdout |-> "Processing", stderr |-> "Traceback" ]

ScriptNotFound(c) ==
    [ success |-> FALSE,
      error |-> << "Script ", c.script_name, ".py not found" >>,
      available_scripts |-> ScriptOrder ]

\* A faulty variant: the files are listed by their names without extension.
LasNotFoundMutant(c, dir) ==
    [ success |-> FALSE,
      error |-> << "LAS file ", c.las_file, " not found" >>,
      available_files |-> [ i \in 1..Len(dir) |-> << dir[i] >> ] ]

LasNotFound(c, dir) ==
    [ success |-> FALSE,
      error |-> << "LAS file ", c.las_file, " not found" >>,
      available_files |-> [ i \in 1..Len(dir) |-> << dir[i], ".las" >> ] ]

ExecutionError(e) ==
    [ success |-> FALSE, error |-> << "Execution error: ", e >> ]

TimedOut ==
    [ success |-> FALSE,
      error |-> "Script execution timed out (300 seconds)",
      processing_time |-> 300000 ]

\* A faulty variant: the run counts as a success when the script wrote
\* nothing to stderr.
FinishedMutant(c, process) ==
    IF process.stderr = ""
    THEN [ success |-> TRUE,
           script |-> c.script_name,
           las_file |-> c.las_file,
           tool |-> c.tool,
           output_files |-> << >>,
           processing_time |-> "elapsed_ms",
           stdout |-> process.stdout,
           stderr |-> PyNone ]
    ELSE [ success |-> FALSE,
           error |-> << "Script execution failed with code ", process.returncode >>,
           stdout |-> process.stdout,
           stderr |-> process.stderr,
           processing_time |-> "elapsed_ms" ]

\* The return of execute_script after the script process has ended.
Finished(c, process) ==
    IF process.returncode = 0
    THEN [ success |-> TRUE,
           script |-> c.script_name,
           las_file |-> c.las_file,
           tool |-> c.tool,
           output_files |-> << >>,
           processing_time |-> "elapsed_ms",
           stdout |-> process.stdout,
           stderr |-> PyNone ]
    ELSE [ success |-> FALSE,
           error |-> << "Script execution failed with code ", process.returncode >>,
           stdout |-> process.stdout,
           stderr |-> process.stderr,
           processing_time |-> "elapsed_ms" ]

\* What the scripts server does not touch.
agentVars ==
    << action, query, llm_config, model, available_tools, available_scripts,
       available_las_files, las_dir, tool_scores, tool_match, argv,
       match_result >>

\* The scripts server with one call of execute_script arriving.
ExecInit ==
    /\ pc = "exec_call"
    /\ call \in ExecCalls
    /\ cmd = << >>
    /\ output_dirs = { }
    /\ result = NoResult
    /\ las_dir \in LasDirs
    /\ argv = << >>
    /\ action = "execute_script"
    /\ query = << >>
    /\ llm_config = PyNone
    /\ Constructed
    /\ tool_scores = << >>
    /\ tool_match = PyNone
    /\ match_result = PyNone

\* "Validate script exists"
ExecCheckScript ==
    /\ pc = "exec_call"
    /\ IF ScriptExists(call.script_name)
       THEN /\ pc' = "exec_check_las"
            /\ result' = result
       ELSE /\ pc' = "exec_returned"
            /\ result' = ScriptNotFound(call)
    /\ UNCHANGED << agentVars, execVars >>

\* "Validate LAS file exists"
ExecCheckLas ==
    /\ pc = "exec_check_las"
    /\ IF LasExists(call.las_file, las_dir)
       THEN /\ pc' = "exec_mkdir"
            /\ result' = result
       ELSE /\ pc' = "exec_returned"
            /\ result' = LasNotFound(call, las_dir)
    /\ UNCHANGED << agentVars, execVars >>

\* output_path.mkdir(parents=True, exist_ok=True), which may raise OSError.
ExecMakeDir ==
    /\ pc = "exec_mkdir"
    /\ \/ /\ \E ts \in Timestamps : output_dirs' = output_dirs \cup { ts }
          /\ pc' = "exec_spawn"
          /\ result' = result
       \/ /\ output_dirs' = output_dirs
          /\ pc' = "exec_returned"
          /\ result' = ExecutionError("OSError")
    /\ UNCHANGED << agentVars, call, cmd >>

\* subprocess.run starts the script, or raises.
ExecSpawn ==
    /\ pc = "exec_spawn"
    /\ \/ /\ cmd' = Command(call)
          /\ pc' = "exec_running"
          /\ result' = result
       \/ /\ cmd' = cmd
          /\ pc' = "exec_returned"
          /\ result' = ExecutionError("OSError")
    /\ UNCHANGED << agentVars, call, output_dirs >>

\* The script runs to its exit and subprocess.run returns the completed
\* process as `result`, or the five minutes pass and execute_script returns.
ExecScriptRuns ==
    /\ pc = "exec_running"
    /\ \E processing \in { "saved", "raises", "timeout" } :
           IF processing = "timeout"
           THEN /\ result' = TimedOut
                /\ pc' = "exec_returned"
           ELSE /\ result' = ScriptProcess(ScriptArgv(cmd), processing)
                /\ pc' = "exec_exited"
    /\ UNCHANGED << agentVars, execVars >>

\* execute_script returns what it makes of the completed process.
ExecReturn ==
    /\ pc = "exec_exited"
    /\ result' = Finished(call, result)
    /\ pc' = "exec_returned"
    /\ UNCHANGED << agentVars, execVars >>

\* The next call arrives.
ExecAgain ==
    /\ pc = "exec_returned"
    /\ \E c \in ExecCalls : call' = c
    /\ cmd' = << >>
    /\ result' = NoResult
    /\ pc' = "exec_call"
    /\ UNCHANGED << agentVars, output_dirs >>

ExecNext ==
    \/ ExecCheckScript
    \/ ExecCheckLas
    \/ ExecMakeDir
    \/ ExecSpawn
    \/ ExecScriptRuns
    \/ ExecReturn
    \/ ExecAgain

ExecSpec == ExecInit /\ [][ExecNext]_vars

\* A path of a file in an output directory the server has made.
IsOutputFile(path) ==
    /\ Len(path) >= 2
    /\ path[1] = "output/"
    /\ path[2] \in output_dirs

\* C19: every script execute_script starts gets exactly two positional
\* arguments, the path of the LAS file and the path of an output file, and
\* the call succeeds exactly when the processing does.
C19_Claim ==
    /\ cmd # << >> =>
           LET positional == SubSeq(cmd, 3, Len(cmd))
           IN  /\ Len(positional) = 2
               /\ positional[1] = LasPath(call.las_file)
               /\ IsOutputFile(positional[2])
    /\ (pc = "exec_returned" /\ cmd # << >> /\ "stdout" \in DOMAIN result) =>
           (result.success <=> result.stdout = "Processing completed successfully")

----------------------------------------------------------------------------
(* mcp_servers/tools_server.py: the server answering calls one after another *)

\* The identifiers get_tool_info is asked about: those of the catalog, and
\* some that are not in it (a spaced name, another case, the empty string, a
\* script's name).
ToolIds ==
    Tools \cup { "gamma analyzer", "Gamma_Analyzer", "", "depth_visualization" }

\* A faulty variant: a tool of the catalog is answered with its descriptor
\* as it is, without the exists flag.
get_tool_infoMutant(tool_name) ==
    IF tool_name \notin DOMAIN AVAILABLE_TOOLS
    THEN [ exists |-> FALSE,
           error |-> << "Tool '", tool_name, "' not found" >>,
           available_tools |-> ToolOrder ]
    ELSE AVAILABLE_TOOLS[tool_name]

\* get_tool_info(tool_name): the returned dict.
get_tool_info(tool_name) ==
    IF tool_name \notin DOMAIN AVAILABLE_TOOLS
    THEN [ exists |-> FALSE,
           error |-> << "Tool '", tool_name, "' not found" >>,
           available_tools |-> ToolOrder ]
    ELSE [ exists |-> TRUE ] @@ AVAILABLE_TOOLS[tool_name]

\* The server is up; available_tools holds its catalog.
ToolsInit ==
    /\ pc = "tools_idle"
    /\ action = "none"
    /\ query = << >>
    /\ llm_config = PyNone
    /\ model = "None"
    /\ available_tools = list_available_tools
    /\ available_scripts = << >>
    /\ available_las_files = << >>
    /\ las_dir = << >>
    /\ tool_scores = << >>
    /\ tool_match = PyNone
    /\ match_result = PyNone
    /\ result = NoResult
    /\ Detached

\* The first call of match_tool_to_query(query).
ToolsMatch ==
    /\ pc = "tools_idle"
    /\ \E q \in Queries :
           /\ query' = q
           /\ tool_scores' = ToolScores(Lower(q))
           /\ tool_match' = PyDict(match_tool_to_query(q))
    /\ action' = "match_tool_to_query"
    /\ pc' = "tools_matched"
    /\ UNCHANGED << match_result, argv, execVars, llm_config, model, available_tools,
                    available_scripts, available_las_files, las_dir, result >>

\* match_tool_to_query is called once more with the same query.
ToolsMatchRepeat ==
    /\ pc \in { "tools_matched", "tools_matched_again" }
    /\ tool_scores' = ToolScores(Lower(query))
    /\ tool_match' = PyDict(match_tool_to_query(query))
    /\ action' = "match_tool_to_query"
    /\ pc' = "tools_matched_again"
    /\ UNCHANGED << match_result, argv, execVars, query, llm_config, model, available_tools,
                    available_scripts, available_las_files, las_dir, result >>

\* A call of get_tool_info(tool_name), at any time.
ToolsGetInfo ==
    /\ pc \in { "tools_idle", "tools_matched", "tools_matched_again" }
    /\ \E id \in ToolIds :
           /\ call' = [ tool_name |-> id ]
           /\ result' = get_tool_info(id)
    /\ action' = "get_tool_info"
    /\ UNCHANGED << pc, match_result, argv, cmd, output_dirs, query, llm_config, model,
                    available_tools, available_scripts, available_las_files,
                    las_dir, tool_scores, tool_match >>

ToolsNext ==
    \/ ToolsMatch
    \/ ToolsMatchRepeat
    \/ ToolsGetInfo

ToolsSpec == ToolsInit /\ [][ToolsNext]_vars

C22_ToolInfo ==
    /\ available_tools = list_available_tools
    /\ (action = "get_tool_info") =>
           LET id == call.tool_name
           IN  /\ "exception" \notin DOMAIN result
               /\ id \in Tools =>
                      /\ DOMAIN result = DOMAIN AVAILABLE_TOOLS[id] \cup { "exists" }
                      /\ result.exists
                      /\ \A field \in DOMAIN AVAILABLE_TOOLS[id] :
                             result[field] = AVAILABLE_TOOLS[id][field]
                      /\ result.name = id
               /\ id \notin Tools =>
                      /\ DOMAIN result = { "exists", "error", "available_tools" }
                      /\ ~result.exists
                      /\ result.available_tools = ToolOrder

\* An identifier that only looks like one of the catalog's.
C22_Witness ==
    /\ action = "get_tool_info"
    /\ call.tool_name = "gamma analyzer"
    /\ ~result.exists
    /\ result.available_tools = ToolOrder

----------------------------------------------------------------------------
(* Claims about the order of a request and about the two gates *)

\* C23: a request goes through the refresh of the catalog and the
\* inventories, then the match, then the gate, then the response; the match
\* starts only when the refresh has ended, and a response of
\* check_clarification never holds a plan and suggestions together.
C23_Claim ==
    [][ /\ pc' = "match" => pc = "load_las"
        /\ pc' = "llm" => pc = "match"
        /\ pc' = "gate" => pc \in { "match", "llm" }
        /\ pc' = "done" =>
               /\ pc = "gate"
               /\ action = "check_clarification" =>
                      ~(result'.agentPlan # PyNone /\ result'.suggestions # << >>) ]_vars

\* C24: in every response of check_clarification needsClarification is false
\* exactly when agentPlan is not null; then suggestions is empty and the
\* confidence is above 0.7. Otherwise the confidence is at most 0.7: 0.3 for
\* a match without confidence or no match, 0.0 after an internal error.
C24_ResponseShape ==
    ClarificationDone =>
        /\ ~result.needsClarification <=> result.agentPlan # PyNone
        /\ ~result.needsClarification =>
               /\ result.suggestions = << >>
               /\ FracLt(Frac(7, 10), result.confidence)
        /\ result.needsClarification =>
               /\ FracLe(result.confidence, Frac(7, 10))
               /\ GetRaises(tool_match) => result.confidence = Frac(0, 1)
               /\ (~GetRaises(tool_match)
                   /\ (~Truthy(tool_match) \/ "confidence" \notin DOMAIN tool_match.v))
                      => result.confidence = Frac(3, 10)
               /\ (~GetRaises(tool_match) /\ Truthy(tool_match)
                   /\ "confidence" \in DOMAIN tool_match.v)
                      => result.confidence = tool_match.v.confidence

\* A match of exactly 0.7 is answered with Clarify and reported as 0.7.
C24_Witness ==
    /\ ClarificationDone
    /\ Clarifies
    /\ IsDict(tool_match)
    /\ "tool" \in DOMAIN tool_match.v
    /\ result.confidence = Frac(7, 10)

\* The match in hand is a dict with a confidence from 0.3 to 0.7.
MiddleConfidence ==
    /\ IsDict(tool_match)
    /\ "confidence" \in DOMAIN tool_match.v
    /\ FracLe(Frac(3, 10), tool_match.v.confidence)
    /\ FracLe(tool_match.v.confidence, Frac(7, 10))

\* What C25 says of the two gates apart from the matches in the middle.
StrictGates ==
    /\ (ClarificationDone /\ Proceeds) => FracLt(Frac(7, 10), MatchConfidence)
    /\ (ClarificationDone /\ MiddleConfidence) => Clarifies
    /\ (ProcessDone /\ result.status = "error"
        /\ result.errorMessage = NoToolMessage) =>
           (~Truthy(tool_match) \/ FracLt(MatchConfidence, Frac(3, 10)))
    /\ (ProcessDone /\ result.status = "completed") =>
           FracLe(Frac(3, 10), result.agentResponse.finalResult.confidence)

\* C25 as stated: check_clarification proceeds only above 0.7, process_query
\* refuses only below 0.3, a completed envelope reports 0.3 at least, and
\* every match with a confidence from 0.3 to 0.7 is completed by
\* process_query.
C25_Original ==
    /\ StrictGates
    /\ (ProcessDone /\ MiddleConfidence) => result.status = "completed"

\* C25: check_clarification proceeds only above 0.7, process_query refuses
\* only below 0.3, a completed envelope reports 0.3 at least, and every match
\* that names a tool with a confidence from 0.3 to 0.7 is completed by
\* process_query; one that names no tool ends with status "error".
C25_StrictThresholds ==
    /\ StrictGates
    /\ (ProcessDone /\ MiddleConfidence) =>
           IF "tool" \in DOMAIN tool_match.v
           THEN result.status = "completed"
           ELSE result.status = "error" /\ result.errorMessage = "'tool'"

\* A match of exactly 0.3 is completed.
C25_Witness ==
    /\ ProcessDone
    /\ MiddleConfidence
    /\ tool_match.v.confidence = Frac(3, 10)
    /\ result.status = "completed"
    /\ result.agentResponse.finalResult.confidence = Frac(3, 10)

\* What C26 says apart from the replies that start the classifier: the
\* classifier starts from the match service's call only, a reply the agent
\* keeps is the keyword matcher's dict, and an agent without a model ends
\* with a response record made from the matcher's dict or from no match.
KeywordFirst ==
    /\ pc' = "llm" => pc = "match"
    /\ (pc = "match" /\ pc' = "gate") =>
           /\ IsDict(tool_match')
           /\ "success" \in DOMAIN tool_match'.v
    /\ (pc' = "done" /\ model = "None") =>
           /\ tool_match = PyNone \/ FromMatcher
           /\ action = "check_clarification" => DOMAIN result' = ClarificationFields
           /\ action = "process_query" => SuccessFields \subseteq DOMAIN result'

----------------------------------------------------------------------------
(* Claims about execute_script *)

\* C27: execute_script tests the script first and the LAS file second; a
\* missing script, and with the script present a missing LAS file, ends the
\* call with success = false, an error that names what is missing and the
\* list of what is there, and neither a new output directory nor a command.
C27_ChecksBeforeEffects ==
    [][ /\ pc = "exec_check_las" => ScriptExists(call.script_name)
        /\ (pc = "exec_call" /\ ~ScriptExists(call.script_name)) =>
               /\ pc' = "exec_returned"
               /\ ~result'.success
               /\ result'.error = << "Script ", call.script_name, ".py not found" >>
               /\ result'.available_scripts = ScriptOrder
               /\ output_dirs' = output_dirs
               /\ cmd' = << >>
        /\ (pc = "exec_check_las" /\ ~LasExists(call.las_file, las_dir)) =>
               /\ pc' = "exec_returned"
               /\ ~result'.success
               /\ result'.error = << "LAS file ", call.las_file, " not found" >>
               /\ result'.available_files
                      = [ i \in 1..Len(las_dir) |-> << las_dir[i], ".las" >> ]
               /\ output_dirs' = output_dirs
               /\ cmd' = << >>
        /\ (output_dirs' # output_dirs \/ cmd' \notin { << >>, cmd }) =>
               /\ ScriptExists(call.script_name)
               /\ LasExists(call.las_file, las_dir) ]_vars

\* A LAS file named without its extension is missing although the directory
\* holds the file: the call has returned the list of the files there.
C27_Witness ==
    /\ pc = "exec_returned"
    /\ ScriptExists(call.script_name)
    /\ call.las_file = << "sample_well_01" >>
    /\ Len(las_dir) = 2
    /\ ~result.success
    /\ "available_files" \in DOMAIN result
    /\ cmd = << >>

\* C28: every call of execute_script ends with a dict that has success, never
\* with an exception; success is true exactly when the script process exited
\* with 0; a non-zero exit gives success = false with the stdout and stderr
\* of the process; a timeout gives success = false with processing_time =
\* 300000; a failure to make the directory or to start the process gives
\* success = false with an error.
C28_NeverRaises ==
    [][ pc' = "exec_returned" =>
            /\ "exception" \notin DOMAIN result'
            /\ "success" \in DOMAIN result'
            /\ result'.success => pc = "exec_exited"
            /\ pc = "exec_exited" =>
                   /\ result'.success <=> result.returncode = 0
                   /\ result.returncode # 0 =>
                          /\ result'.stdout = result.stdout
                          /\ result'.stderr = result.stderr
            /\ pc = "exec_running" =>
                   /\ ~result'.success
                   /\ result'.processing_time = 300000
            /\ pc \in { "exec_mkdir", "exec_spawn" } =>
                   /\ ~result'.success
                   /\ "error" \in DOMAIN result' ]_vars

\* The script took its usage exit and the call reports the exit status 1.
C28_Witness ==
    /\ pc = "exec_returned"
    /\ cmd # << >>
    /\ ~result.success
    /\ "stdout" \in DOMAIN result
    /\ result.stdout = "Usage"
    /\ result.error = << "Script execution failed with code ", 1 >>

----------------------------------------------------------------------------
(* Claims about the two operations on one match, and about the refresh *)

\* C29: whenever check_clarification proceeds, process_query on the same
\* match and the same inventories completes, with the tool of the match and
\* the confidence check_clarification reported.
C29_Claim ==
    (ClarificationDone /\ Proceeds) =>
        LET processed == ProcessQueryResult(query, tool_match,
                                            available_las_files, available_scripts)
        IN  /\ processed.status = "completed"
            /\ "tool" \in DOMAIN tool_match.v
            /\ processed.agentResponse.finalResult.tool = tool_match.v.tool
            /\ FracEq(processed.agentResponse.finalResult.confidence,
                      result.confidence)

\* C30: after the refresh of a request, whatever the discovery calls did,
\* the catalog and the script inventory are not empty, and the LAS inventory
\* is not empty when the directory holds a file.
C30_Claim ==
    pc = "match" =>
        /\ available_tools # << >>
        /\ available_scripts # << >>
        /\ las_dir # << >> => available_las_files # << >>

====
